---- MODULE Spec2Model ----
(***************************************************************************)
(* A model of score.session: the abstract Session of _init.py, the        *)
(* key/value-cache backend of _kvcache.py and the relational backend of   *)
(* orm.py.  A session object and its backend are the state; every public  *)
(* operation of the session is one action.  Further specifications add a  *)
(* second session instance, the transaction participant (DataManager), a  *)
(* failing backend and the destruction of the session.                     *)
(***************************************************************************)
EXTENDS Integers, FiniteSets, Sequences, TLC

\* ---------------------------------------------------------------- bounds
MaxScalar == 1      \* the scalar values are 1..MaxScalar

\* ---------------------------------------------------------------- values
Keys == {"a", "c"}          \* the keys the caller uses
Columns == {"c"}            \* first-class columns declared by the row class
InnerKeys == {"a"}          \* keys of a mapping that is stored as a value

None == "None"              \* Python's None, as an identity
EmptyId == ""               \* the empty string, as a candidate identity
StoredId == "s1"            \* an identity the backend may know at start
UnknownId == "zz"           \* an identity the backend never knows
NewId == "u1"               \* the identity uuid4() hands out
IdSpace == {StoredId, UnknownId, NewId}

Scalars == 1..MaxScalar
\* a mapping value: inner key |-> scalar, 0 for a key that is not there
Contents == [InnerKeys -> 0..MaxScalar]
EmptyContent == [k \in InnerKeys |-> 0]

VInt(n) == [t |-> "int", n |-> n, m |-> EmptyContent]
VMap(m) == [t |-> "map", n |-> 0, m |-> m]
VNone == [t |-> "none", n |-> 0, m |-> EmptyContent]
Absent == [t |-> "absent", n |-> 0, m |-> EmptyContent]
Values == {VInt(n) : n \in Scalars} \cup {VMap(m) : m \in Contents}

\* the one element of a singleton: Only({e(x) : x \in {v}}) is e with v
\* computed once, as a statement sequence computes it
Only(S) == CHOOSE x \in S : TRUE

\* a Python dict over Keys: key |-> value, Absent for a key that is not there
EmptyDict == [k \in Keys |-> Absent]
DictKeys(d) == {k \in Keys : d[k] # Absent}
\* the dict a mapping value denotes (its inner keys are keys, too)
AsDict(m) == [k \in Keys |-> IF k \in InnerKeys /\ m[k] # 0 THEN VInt(m[k]) ELSE Absent]

\* _cached_dict: None, or a dict
NoDict == [loaded |-> FALSE, d |-> EmptyDict]
Loaded(d) == [loaded |-> TRUE, d |-> d]
\* an entry of the cache container: NotFound, or the stored mapping
NotFound == [found |-> FALSE, d |-> EmptyDict]
Found(d) == [found |-> TRUE, d |-> d]

\* the row object of the relational backend: None, or a row that is
\* transient (never added), pending (added, not committed) or persistent
NoCols == [c \in Columns |-> VNone]
NoObject == [state |-> "none", rid |-> None, cols |-> NoCols, data |-> EmptyDict, flagged |-> FALSE]
\* a row of the table: no row, or the committed column values and payload
NoRow == [found |-> FALSE, cols |-> NoCols, data |-> EmptyDict]
Row(cols, data) == [found |-> TRUE, cols |-> cols, data |-> data]

\* an object handed to the caller: its value and whether it is the very
\* object the session stores (alias) or an object of its own
NoHandle == [key |-> "a", v |-> Absent, alias |-> FALSE]

VARIABLES
    conf,           \* the configuration: backend, kvcache.livedata, _has_ctx
    id,             \* Session.id
    original_id,    \* Session._original_id
    was_changed,    \* Session._was_changed
    is_dirty,       \* Session._is_dirty
    cached_dict,    \* DictSession._cached_dict
    orm_object,     \* OrmSession.__orm_object
    container,      \* the cache container: identity |-> stored mapping
    table,          \* the committed rows of the session table
    held,           \* the object the caller got from the last __getitem__
    last,           \* the last operation, its arguments and its outcome
    keys_out,       \* the keys the last iteration produced
    revert_data,    \* DataManager.revert_data
    peer,           \* a second session instance on the same cache container
    scenario,       \* how far the sequence set, commit, tpc_abort has come
    twin,           \* a session made by create(), run beside a loaded one
    ctx,            \* the request context the session is a member of
    cache           \* the cache of the module of __init__.py: key |-> mapping

vars == <<conf, id, original_id, was_changed, is_dirty, cached_dict,
          orm_object, container, table, held, last,
          keys_out, revert_data, peer, scenario, twin, ctx, cache>>

IsKv == conf.backend = "kvcache"
IsOrm == conf.backend = "orm"

\* ------------------------------------------------- the state as one record
\* The operators below are the methods; each takes the state w the method
\* runs in and yields the state it leaves (and what it returns).  calls
\* counts the backend calls made since the operation began, writes those of
\* them that change the backend.  fail says that the backend refuses the
\* writes of this operation, raised that a backend call has raised.
World == [id |-> id, original_id |-> original_id, was_changed |-> was_changed,
          is_dirty |-> is_dirty, cached_dict |-> cached_dict,
          orm_object |-> orm_object, container |-> container, table |-> table,
          calls |-> 0, writes |-> 0, fail |-> FALSE, raised |-> FALSE]

Lookup(store, i) == IF i \in IdSpace THEN store[i] ELSE NotFound

\* ------------------------------------------------------------ _kvcache.py
\* KvcacheSession._create_dict
create_dict(w) ==
    Only({ [w |-> [w EXCEPT !.calls = @ + 1],
            ret |-> IF e.found THEN e.d ELSE EmptyDict] :
           e \in {Lookup(w.container, w.id)} })

\* KvcacheSession._id_is_valid
Kvcache_id_is_valid(cont, i) == Lookup(cont, i).found

\* a store that adds the keys of the mapping to the entry it finds
Kvcache_store_merging(w) ==
    IF w.fail THEN [w EXCEPT !.calls = @ + 1, !.raised = TRUE]
    ELSE [w EXCEPT !.container[w.id] =
                       Found([k \in Keys |-> IF w.cached_dict.d[k] # Absent
                                             THEN w.cached_dict.d[k]
                                             ELSE Lookup(w.container, w.id).d[k]]),
                   !.calls = @ + 1, !.writes = @ + 1]

\* KvcacheSession._store
Kvcache_store(w) ==
    IF w.fail THEN [w EXCEPT !.calls = @ + 1, !.raised = TRUE]
    ELSE [w EXCEPT !.container[w.id] = Found(w.cached_dict.d),
                   !.calls = @ + 1, !.writes = @ + 1]

\* a _revert that also takes the identity back
Kvcache_revert_forgetting(w) == [w EXCEPT !.cached_dict = NoDict, !.id = w.original_id]

\* KvcacheSession._revert
Kvcache_revert(w) == [w EXCEPT !.cached_dict = NoDict]

\* DictSession._dict
dict(w) ==
    IF w.cached_dict.loaded
    THEN [w |-> w, ret |-> w.cached_dict.d]
    ELSE Only({ [w |-> [r.w EXCEPT !.cached_dict = Loaded(r.ret)], ret |-> r.ret] :
                r \in {create_dict(w)} })

\* DictSession._contains
Dict_contains(w, key) ==
    Only({ [w |-> r.w, ret |-> r.ret[key] # Absent] : r \in {dict(w)} })

\* DictSession._get: the stored object itself, KeyError for an absent key
Dict_get(w, key) ==
    Only({ [w |-> r.w, exc |-> r.ret[key] = Absent,
            ret |-> [key |-> key, v |-> r.ret[key], alias |-> TRUE]] :
           r \in {dict(w)} })

\* DictSession._set
Dict_set(w, key, value) ==
    LET r == dict(w) IN [r.w EXCEPT !.cached_dict.d[key] = value]

\* DictSession._del
Dict_del(w, key) ==
    LET r == dict(w) IN [r.w EXCEPT !.cached_dict.d[key] = Absent]

\* DictSession.items: the (key, value) pairs of _dict, as a dict
Dict_items(w) == dict(w)

\* ------------------------------------------------------------------ orm.py
\* the columns every row class has from OrmSessionMixin
RowAttributes == {"id", "data"}
\* hasattr(self._orm_object, key): the declared first-class columns and the
\* columns of the mixin are attributes of the row
hasattr(key) == key \in Columns \cup RowAttributes

\* OrmSession._id_is_valid
Orm_id_is_valid(tab, i) == Lookup(tab, i).found

\* OrmSession._orm_object: the row of _original_id, or a new row object
Orm_orm_object(w) ==
    IF w.orm_object.state # "none" THEN w
    ELSE IF w.original_id # None
    THEN LET row == Lookup(w.table, w.original_id)
         IN [w EXCEPT !.orm_object = [state |-> "persistent", rid |-> w.original_id,
                                      cols |-> row.cols, data |-> row.data,
                                      flagged |-> FALSE],
                      !.calls = @ + 1]
    ELSE [w EXCEPT !.orm_object = [state |-> "transient", rid |-> None,
                                   cols |-> NoCols, data |-> EmptyDict,
                                   flagged |-> FALSE]]

\* self._orm.commit(): the staged row becomes the committed row
Orm_commit(w) ==
    IF w.fail THEN [w EXCEPT !.calls = @ + 1, !.raised = TRUE]
    ELSE [w EXCEPT !.table[w.orm_object.rid] = Row(w.orm_object.cols, w.orm_object.data),
                   !.orm_object.state = "persistent", !.orm_object.flagged = FALSE,
                   !.calls = @ + 1, !.writes = @ + 1]

\* self._orm.rollback(): a persistent row is expired and shows the committed
\* row again; a row object that was never added is not touched
Orm_rollback(w) ==
    LET o == w.orm_object
        row == Lookup(w.table, o.rid)
    IN [w EXCEPT !.orm_object = IF o.state = "persistent"
                                THEN [o EXCEPT !.cols = row.cols, !.data = row.data,
                                               !.flagged = FALSE]
                                ELSE o,
                 !.calls = @ + 1]

\* a _store that commits whoever owns the transaction
Orm_store_committing(w) ==
    Only({ Orm_commit(w2) :
           w2 \in { [w1 EXCEPT !.orm_object.rid = w1.id,
                               !.orm_object.state = IF @ = "transient" THEN "pending" ELSE @,
                               !.orm_object.flagged = TRUE] :
                    w1 \in {Orm_orm_object(w)} } })

\* OrmSession._store
Orm_store(w) ==
    Only({ IF ~conf.has_ctx THEN Orm_commit(w2) ELSE w2 :
           w2 \in { [w1 EXCEPT !.orm_object.rid = w1.id,
                               !.orm_object.state = IF @ = "transient" THEN "pending" ELSE @,
                               !.orm_object.flagged = TRUE] :
                    w1 \in {Orm_orm_object(w)} } })

\* OrmSession._revert
Orm_revert(w) == IF ~conf.has_ctx THEN Orm_rollback(w) ELSE w

\* OrmSession._set
Orm_set(w, key, value) ==
    Only({ IF hasattr(key) THEN [w1 EXCEPT !.orm_object.cols[key] = value]
           ELSE [w1 EXCEPT !.orm_object.data[key] = value] :
           w1 \in {Orm_orm_object(w)} })

\* OrmSession._del
Orm_del(w, key) ==
    Only({ IF hasattr(key) THEN [w1 EXCEPT !.orm_object.cols[key] = VNone]
           ELSE [w1 EXCEPT !.orm_object.data[key] = Absent] :
           w1 \in {Orm_orm_object(w)} })

\* OrmSession._contains
Orm_contains(w, key) ==
    Only({ [w |-> w1, ret |-> hasattr(key) \/ w1.orm_object.data[key] # Absent] :
           w1 \in {Orm_orm_object(w)} })

\* OrmSession._get
Orm_get(w, key) ==
    Only({ LET v == IF hasattr(key) THEN w1.orm_object.cols[key]
                    ELSE w1.orm_object.data[key]
           IN [w |-> w1, exc |-> v = Absent,
               ret |-> [key |-> key, v |-> v, alias |-> TRUE]] :
           w1 \in {Orm_orm_object(w)} })

\* OrmSession._iter: the first-class columns, then the keys of the payload
Orm_iter(w) ==
    Only({ [w |-> w1, ret |-> Columns \cup DictKeys(w1.orm_object.data)] :
           w1 \in {Orm_orm_object(w)} })

\* ---------------------------------------------------------------- _init.py
\* the backend methods of the configured session class
id_is_valid(cont, tab, i) ==
    IF IsKv THEN Kvcache_id_is_valid(cont, i) ELSE Orm_id_is_valid(tab, i)
backend_store(w) == IF IsKv THEN Kvcache_store(w) ELSE Orm_store(w)
backend_revert(w) == IF IsKv THEN Kvcache_revert(w) ELSE Orm_revert(w)
backend_contains(w, key) == IF IsKv THEN Dict_contains(w, key) ELSE Orm_contains(w, key)
backend_get(w, key) == IF IsKv THEN Dict_get(w, key) ELSE Orm_get(w, key)
backend_set(w, key, value) == IF IsKv THEN Dict_set(w, key, value) ELSE Orm_set(w, key, value)
backend_del(w, key) == IF IsKv THEN Dict_del(w, key) ELSE Orm_del(w, key)

\* a constructor that takes the candidate as it comes
Session_init_trusting(cont, tab, candidate) == candidate

\* Session.__init__: a candidate that is empty or not valid becomes None
Session_init(cont, tab, candidate) ==
    IF candidate \in {None, EmptyId} \/ ~id_is_valid(cont, tab, candidate)
    THEN None ELSE candidate

\* a store that does not look at the dirty flag
store_always(w) == backend_store(w)

\* Session.store
store(w) == IF w.is_dirty THEN backend_store(w) ELSE w

\* a revert that also forgets that the session was changed
revert_resetting(w) ==
    IF w.is_dirty THEN [backend_revert(w) EXCEPT !.is_dirty = FALSE, !.was_changed = FALSE]
    ELSE w

\* Session.revert
revert(w) ==
    IF w.is_dirty THEN [backend_revert(w) EXCEPT !.is_dirty = FALSE] ELSE w

\* a _mark_dirty that does not record the change
Session_mark_dirty_quiet(w) == [w EXCEPT !.is_dirty = TRUE]

\* Session._mark_dirty
Session_mark_dirty(w) == [w EXCEPT !.was_changed = TRUE, !.is_dirty = TRUE]

\* a _mark_dirty that clears the flag in live mode without writing
Kvcache_mark_dirty_lazy(w) ==
    IF conf.livedata THEN [w EXCEPT !.was_changed = TRUE, !.is_dirty = FALSE]
    ELSE Session_mark_dirty(w)

\* a write-through that resets the dirty flag whatever the write did
Kvcache_mark_dirty_clearing(w) ==
    IF ~conf.livedata THEN Session_mark_dirty(w)
    ELSE [Kvcache_store(Session_mark_dirty(w)) EXCEPT !.is_dirty = FALSE]

\* KvcacheSession._mark_dirty
Kvcache_mark_dirty(w) ==
    IF ~conf.livedata THEN Session_mark_dirty(w)
    ELSE Only({ IF w2.raised THEN w2 ELSE [w2 EXCEPT !.is_dirty = FALSE] :
                w2 \in {Kvcache_store(Session_mark_dirty(w))} })

mark_dirty(w) == IF IsKv THEN Kvcache_mark_dirty(w) ELSE Session_mark_dirty(w)

\* no copy: the stored object itself
deepcopy_same(o) == o

\* copy.deepcopy: an object of its own with the same value
deepcopy(o) == [o EXCEPT !.alias = FALSE]

\* a containment check that does not look at the identity
contains_unguarded(w, key) == backend_contains(w, key)

\* Session.__contains__
contains(w, key) ==
    IF w.id = None THEN [w |-> w, ret |-> FALSE] ELSE backend_contains(w, key)

\* Session.__getitem__
getitem(w, key) ==
    IF w.id = None THEN [w |-> w, exc |-> TRUE, ret |-> NoHandle]
    ELSE Only({ [w |-> r.w, exc |-> r.exc,
                 ret |-> IF r.exc THEN NoHandle ELSE deepcopy(r.ret)] :
                r \in {backend_get(w, key)} })

\* dict(self.items()): DictSession.items reads _dict; the Session of the
\* relational backend iterates _iter() and reads every key with __getitem__,
\* whose KeyError is not caught
items(w) ==
    IF IsKv THEN Only({ [w |-> r.w, exc |-> FALSE, ret |-> r.ret] : r \in {Dict_items(w)} })
    ELSE Only({ [w |-> i.w, exc |-> i.ret # {} /\ w.id = None,
                 ret |-> [k \in Keys |-> IF k \notin i.ret THEN Absent
                                         ELSE IF hasattr(k) THEN i.w.orm_object.cols[k]
                                         ELSE i.w.orm_object.data[k]]] :
                i \in {Orm_iter(w)} })

\* self == value, the comparison __setitem__ makes for an absent key (the
\* default of get is the session): Mapping.__eq__ is false for a value that
\* is no mapping and compares dict(self.items()) with a value that is one
session_eq(w, value) ==
    IF value.t # "map" THEN [w |-> w, exc |-> FALSE, ret |-> FALSE]
    ELSE Only({ [w |-> r.w, exc |-> r.exc, ret |-> ~r.exc /\ r.ret = AsDict(value.m)] :
                r \in {items(w)} })

\* a comparison that never finds the value unchanged
unchanged_never(w, key, value) ==
    Only({ [w |-> g.w, exc |-> FALSE, ret |-> FALSE] : g \in {getitem(w, key)} })

\* self.get(key, self) == value
unchanged_value(w, key, value) ==
    Only({ IF g.exc THEN session_eq(g.w, value)
           ELSE [w |-> g.w, exc |-> FALSE, ret |-> g.ret.v = value] :
           g \in {getitem(w, key)} })

\* Session.__setitem__
setitem(w, key, value) ==
    Only({ IF e.exc \/ e.ret THEN [w |-> e.w, exc |-> e.exc, noop |-> ~e.exc]
           ELSE [w |-> mark_dirty(backend_set(
                           [e.w EXCEPT !.id = IF @ = None THEN NewId ELSE @],
                           key, value)),
                 exc |-> FALSE, noop |-> FALSE] :
           e \in {unchanged_value(w, key, value)} })

\* Session.__delitem__
delitem(w, key) ==
    Only({ IF ~c.ret THEN c.w ELSE mark_dirty(backend_del(c.w, key)) :
           c \in {contains(w, key)} })

\* --------------------------------------------------- what the session shows
\* the result of get(key) in the current state, Absent for a KeyError
ViewGet(key) == LET r == getitem(World, key) IN IF r.exc THEN Absent ELSE r.ret.v
\* the result of contains(key) in the current state
ViewContains(key) == contains(World, key).ret
\* what the backend holds for an identity
Persisted(i) ==
    IF IsKv THEN Lookup(container, i).d
    ELSE LET row == Lookup(table, i)
         IN [k \in Keys |-> IF hasattr(k) THEN row.cols[k] ELSE row.data[k]]

\* ------------------------------------------------------------ the behaviour
Configurations ==
    {[backend |-> "kvcache", livedata |-> l, has_ctx |-> FALSE] : l \in BOOLEAN}
    \cup {[backend |-> "orm", livedata |-> FALSE, has_ctx |-> h] : h \in BOOLEAN}

\* the data the backend may hold for StoredId when the session is constructed
InitDicts == {EmptyDict, [EmptyDict EXCEPT !["a"] = VInt(1)],
              [EmptyDict EXCEPT !["a"] = VMap(EmptyContent)]}
OneDict == [EmptyDict EXCEPT !["a"] = VInt(1)]
NoContainer == [i \in IdSpace |-> NotFound]
NoTable == [i \in IdSpace |-> NoRow]

\* the record of an operation: its name and arguments, whether it raised
\* (exc), its boolean outcome (flag: the answer of contains, set dropped as
\* a no-op), its backend calls, whether one of them raised, and the id and
\* isDirty it started from
Outcome(op, key, val, exc, flag, w) ==
    [op |-> op, key |-> key, val |-> val, exc |-> exc, flag |-> flag,
     calls |-> w.calls, writes |-> w.writes, raised |-> w.raised,
     pre_id |-> id, pre_dirty |-> is_dirty]

\* no context: the session is used on its own
Unset == "unset"            \* an attribute the context does not have
NoCookie == "no-cookie"     \* the response carries no session cookie
NoCtx == [phase |-> "none", constructed |-> FALSE, http |-> FALSE, cookies |-> FALSE,
          max_age |-> FALSE, request |-> None, id_member |-> Unset,
          exception |-> FALSE, emitted |-> NoCookie]

\* the cache of __init__.py with no entry at all
NoCache == [i \in IdSpace \cup {None} |-> NotFound]

ext == <<keys_out, revert_data, peer, scenario, twin, ctx, cache>>

\* no revert buffer, no second instance, no twin
NoBuffer == [set |-> FALSE, d |-> EmptyDict]
NoScenario == [phase |-> "idle", key |-> "a", before |-> Absent]
NoPeer == [made |-> FALSE, id |-> None, cached_dict |-> NoDict, is_dirty |-> FALSE,
           v |-> Absent]

NoTwin == [on |-> FALSE, same |-> TRUE, candidate |-> None,
           w |-> [id |-> None, original_id |-> None, was_changed |-> FALSE,
                  is_dirty |-> FALSE, cached_dict |-> NoDict,
                  orm_object |-> NoObject, container |-> NoContainer,
                  table |-> NoTable, calls |-> 0, writes |-> 0,
                  fail |-> FALSE, raised |-> FALSE]]

CommitSession(w) ==
    /\ id' = w.id
    /\ original_id' = w.original_id
    /\ was_changed' = w.was_changed
    /\ is_dirty' = w.is_dirty
    /\ cached_dict' = w.cached_dict
    /\ orm_object' = w.orm_object
    /\ container' = w.container
    /\ table' = w.table
    /\ UNCHANGED conf

Commit(w) == CommitSession(w) /\ UNCHANGED ext

\* ConfiguredSessionModule.create / load: the state after construction
Constructed(candidates, dicts) ==
    /\ conf \in Configurations
    /\ container \in {NoContainer} \cup
            {[NoContainer EXCEPT ![StoredId] = Found(d)] : d \in dicts}
    /\ table \in {NoTable} \cup
            {[NoTable EXCEPT ![StoredId] = Row(NoCols, d)] : d \in dicts}
    /\ IsKv => table = NoTable
    /\ IsOrm => container = NoContainer
    /\ \E candidate \in candidates :
            /\ id = Session_init(container, table, candidate)
            /\ last = [op |-> "init", key |-> "a", val |-> Absent, exc |-> FALSE,
                       flag |-> FALSE, writes |-> 0,
                       calls |-> IF candidate \in {None, EmptyId} THEN 0 ELSE 1,
                       raised |-> FALSE,
                       pre_id |-> candidate, pre_dirty |-> FALSE]
    /\ original_id = id
    /\ was_changed = FALSE
    /\ is_dirty = FALSE
    /\ cached_dict = NoDict
    /\ orm_object = NoObject
    /\ held = NoHandle
    /\ keys_out = {}
    /\ revert_data = NoBuffer
    /\ peer = NoPeer
    /\ scenario = NoScenario

Init ==
    /\ Constructed({None, StoredId, UnknownId}, InitDicts)
    /\ twin = NoTwin /\ ctx = NoCtx /\ cache = NoCache

\* key in session
Contains(key) ==
    LET r == contains(World, key)
    IN /\ Commit(r.w)
       /\ held' = NoHandle
       /\ last' = Outcome("contains", key, Absent, FALSE, r.ret, r.w)

\* session[key]
GetItem(key) ==
    LET r == getitem(World, key)
    IN /\ Commit(r.w)
       /\ held' = IF ~r.exc /\ r.ret.v.t = "map" THEN r.ret ELSE NoHandle
       /\ last' = Outcome("get", key, Absent, r.exc, FALSE, r.w)

\* session[key] = value
SetItem(key, value) ==
    LET r == setitem(World, key, value)
    IN /\ Commit(r.w)
       /\ held' = NoHandle
       /\ last' = Outcome("set", key, value, r.exc, r.noop, r.w)

\* del session[key]
DelItem(key) ==
    LET w == delitem(World, key)
    IN /\ Commit(w)
       /\ held' = NoHandle
       /\ last' = Outcome("del", key, Absent, FALSE, FALSE, w)

\* session.store()
Store ==
    LET w == store(World)
    IN /\ Commit(w)
       /\ held' = NoHandle
       /\ last' = Outcome("store", "a", Absent, FALSE, FALSE, w)

\* session.revert()
Revert ==
    LET w == revert(World)
    IN /\ Commit(w)
       /\ held' = NoHandle
       /\ last' = Outcome("revert", "a", Absent, FALSE, FALSE, w)

\* the caller changes the mapping it got from session[key]: the object the
\* session stores changes with it exactly when the two are one object
Mutate(k, n) ==
    /\ held.v.t = "map"
    /\ held.v.m[k] # n
    /\ LET v == VMap([held.v.m EXCEPT ![k] = n])
           w == IF ~held.alias THEN World
                ELSE IF IsKv THEN [World EXCEPT !.cached_dict.d[held.key] = v]
                ELSE IF hasattr(held.key) THEN [World EXCEPT !.orm_object.cols[held.key] = v]
                ELSE [World EXCEPT !.orm_object.data[held.key] = v]
       IN /\ Commit(w)
          /\ held' = [held EXCEPT !.v = v]
          /\ last' = Outcome("mutate", held.key, v, FALSE, FALSE, w)

Next ==
    \/ \E key \in Keys : Contains(key)
    \/ \E key \in Keys : GetItem(key)
    \/ \E key \in Keys, value \in Values : SetItem(key, value)
    \/ \E key \in Keys : DelItem(key)
    \/ Store
    \/ Revert
    \/ \E k \in InnerKeys, n \in 0..MaxScalar : Mutate(k, n)

Spec == Init /\ [][Next]_vars

\* what an operation leaves of a world once its call counters are dropped
Settled(w) == [w EXCEPT !.calls = 0, !.writes = 0]

\* ------------------------------------------------------ a second instance
\* ConfiguredSessionModule.load(candidate) on the backend of the world w:
\* a new session object with no cached data
load(w, candidate) ==
    LET i == Session_init(w.container, w.table, candidate)
    IN [w EXCEPT !.id = i, !.original_id = i, !.was_changed = FALSE,
                 !.is_dirty = FALSE, !.cached_dict = NoDict,
                 !.orm_object = NoObject]

\* the second instance as a world of its own on the shared backend
PeerWorld ==
    [Settled(World) EXCEPT !.id = peer.id, !.original_id = peer.id,
                           !.was_changed = peer.is_dirty, !.is_dirty = peer.is_dirty,
                           !.cached_dict = peer.cached_dict,
                           !.orm_object = NoObject]

\* B = load(A.id)
PeerLoad ==
    /\ id # None
    /\ LET B == load(Settled(World), id)
       IN /\ peer' = [made |-> TRUE, id |-> B.id, cached_dict |-> B.cached_dict,
                      is_dirty |-> B.is_dirty, v |-> Absent]
          /\ last' = Outcome("peer_load", "a", Absent, FALSE, FALSE, B)
    /\ held' = NoHandle
    /\ CommitSession(World)
    /\ UNCHANGED <<keys_out, revert_data, scenario, twin, ctx, cache>>

\* what a read of B leaves: its cached dict; the reads write nothing
PeerDone(op, key, exc, flag, v, w) ==
    /\ peer' = [peer EXCEPT !.cached_dict = w.cached_dict, !.v = v]
    /\ last' = Outcome(op, key, Absent, exc, flag, w)
    /\ held' = NoHandle
    /\ CommitSession(World)
    /\ UNCHANGED <<revert_data, scenario, twin, ctx, cache>>

\* B[key]
PeerGet(key) ==
    /\ peer.made
    /\ LET r == getitem(PeerWorld, key)
       IN PeerDone("peer_get", key, r.exc, FALSE,
                   IF r.exc THEN Absent ELSE r.ret.v, r.w)
    /\ UNCHANGED keys_out

\* key in B
PeerContains(key) ==
    /\ peer.made
    /\ LET r == contains(PeerWorld, key)
       IN PeerDone("peer_contains", key, FALSE, r.ret, Absent, r.w)
    /\ UNCHANGED keys_out

\* list(B): DictSession.__iter__
PeerIter ==
    /\ peer.made
    /\ LET r == dict(PeerWorld)
       IN /\ PeerDone("peer_iter", "a", FALSE, FALSE, Absent, r.w)
          /\ keys_out' = DictKeys(r.ret)

\* two instances of one session of the cache backend in live mode
InitPeer ==
    /\ Constructed({None, StoredId}, {OneDict})
    /\ IsKv /\ conf.livedata
    /\ twin = NoTwin /\ ctx = NoCtx /\ cache = NoCache

\* the values instance A writes
PeerValues == {VInt(1), VMap(EmptyContent)}

NextPeer ==
    \/ \E key \in Keys, value \in PeerValues : SetItem(key, value)
    \/ \E key \in Keys : DelItem(key)
    \/ PeerLoad
    \/ \E key \in Keys : PeerGet(key)
    \/ \E key \in Keys : PeerContains(key)
    \/ PeerIter

SpecPeer == InitPeer /\ [][NextPeer]_vars

\* ----------------------------------------------------- iteration and len
\* Session.__iter__ / DictSession.__iter__: the keys the iteration yields
Session_iter(w) ==
    IF IsKv THEN Only({ [w |-> r.w, ret |-> DictKeys(r.ret)] : r \in {dict(w)} })
    ELSE Orm_iter(w)

\* Session.__len__ / DictSession.__len__: the number of keys
Session_len(w) ==
    Only({ [w |-> r.w, ret |-> Cardinality(r.ret)] : r \in {Session_iter(w)} })

\* ------------------------------------------------ the transaction participant
\* the orders in which a dict may hold the keys
Orders == {<<"a", "c">>, <<"c", "a">>}

\* MutableMapping.popitem: the first iterated key is read and deleted,
\* KeyError when the iteration yields nothing.  The relational session
\* iterates its columns first; which key of a dict comes first does not
\* change what clear() leaves
first_key(keys) ==
    IF IsOrm /\ keys \cap Columns # {} THEN CHOOSE k \in keys \cap Columns : TRUE
    ELSE CHOOSE k \in keys : TRUE

popitem(w) ==
    Only({ IF it.ret = {} THEN [w |-> it.w, exc |-> TRUE]
           ELSE Only({ IF g.exc THEN [w |-> g.w, exc |-> TRUE]
                       ELSE [w |-> delitem(g.w, first_key(it.ret)), exc |-> FALSE] :
                       g \in {getitem(it.w, first_key(it.ret))} }) :
           it \in {Session_iter(w)} })

\* MutableMapping.clear: popitem until KeyError.  hang: a popitem left the
\* session as it found it, so the loop never ends
RECURSIVE clear(_)
clear(w) ==
    Only({ IF p.exc THEN [w |-> p.w, hang |-> FALSE]
           ELSE IF Settled(p.w) = Settled(w) THEN [w |-> p.w, hang |-> TRUE]
           ELSE clear(p.w) :
           p \in {popitem(w)} })

\* MutableMapping.update(other): self[key] = other[key] in the order of other
RECURSIVE update(_, _, _)
update(w, d, order) ==
    IF order = <<>> THEN [w |-> w, exc |-> FALSE]
    ELSE IF d[Head(order)] = Absent THEN update(w, d, Tail(order))
    ELSE Only({ IF r.exc THEN [w |-> r.w, exc |-> TRUE]
                ELSE update(r.w, d, Tail(order)) :
                r \in {setitem(w, Head(order), d[Head(order)])} })

\* a commit that assigns the buffer before it stores
DM_commit_early(w, buf) ==
    IF w.id = None THEN [w |-> w, buf |-> buf]
    ELSE Only({ [w |-> store(s.w), buf |-> [set |-> TRUE, d |-> s.ret]] :
                s \in {items(w)} })

\* DataManager.commit: the copy of the session is taken before store()
DM_commit(w, buf) ==
    IF w.id = None THEN [w |-> w, buf |-> buf]
    ELSE Only({ Only({ [w |-> w1,
                        buf |-> IF w1.raised THEN buf ELSE [set |-> TRUE, d |-> s.ret]] :
                       w1 \in {store(s.w)} }) :
                s \in {items(w)} })

\* DataManager.tpc_abort
DM_tpc_abort(w, buf, order) ==
    IF ~buf.set \/ w.id = None
    THEN [w |-> w, buf |-> buf, hang |-> FALSE, exc |-> FALSE]
    ELSE Only({ IF c.hang THEN [w |-> c.w, buf |-> buf, hang |-> TRUE, exc |-> FALSE]
                ELSE Only({ [w |-> u.w, buf |-> IF u.exc THEN buf ELSE NoBuffer,
                             hang |-> FALSE, exc |-> u.exc] :
                            u \in {update(c.w, buf.d, order)} }) :
                c \in {clear(w)} })

\* the values written in a transaction
TxValues == {VInt(1), VMap(EmptyContent)}

\* session[key] = value, the first step of the scenario
TxSet(key, value) ==
    LET r == setitem(World, key, value)
    IN /\ CommitSession(r.w)
       /\ held' = NoHandle
       /\ last' = Outcome("set", key, value, r.exc, r.noop, r.w)
       /\ scenario' = [phase |-> "set", key |-> key, before |-> ViewGet(key)]
       /\ UNCHANGED <<keys_out, revert_data, peer, twin, ctx, cache>>

\* del session[key]
TxDel(key) ==
    LET w == delitem(World, key)
    IN /\ CommitSession(w)
       /\ held' = NoHandle
       /\ last' = Outcome("del", key, Absent, FALSE, FALSE, w)
       /\ scenario' = NoScenario
       /\ UNCHANGED <<keys_out, revert_data, peer, twin, ctx, cache>>

\* DataManager.commit(transaction)
TxCommit ==
    \E r \in {DM_commit(World, revert_data)} :
       /\ CommitSession(r.w)
       /\ revert_data' = r.buf
       /\ held' = NoHandle
       /\ last' = Outcome("commit", "a", Absent, FALSE, FALSE, r.w)
       /\ scenario' = IF scenario.phase = "set"
                       THEN [scenario EXCEPT !.phase = "committed"]
                       ELSE NoScenario
       /\ UNCHANGED <<keys_out, peer, twin, ctx, cache>>

\* DataManager.commit(transaction) while the backend refuses to write: store()
\* raises and the transaction manager gets the error
TxCommitFailing ==
    \E r \in {DM_commit([World EXCEPT !.fail = TRUE], revert_data)} :
       /\ r.w.raised
       /\ CommitSession(r.w)
       /\ revert_data' = r.buf
       /\ held' = NoHandle
       /\ last' = Outcome("commit", "a", Absent, TRUE, FALSE, r.w)
       /\ scenario' = NoScenario
       /\ UNCHANGED <<keys_out, peer, twin, ctx, cache>>

\* DataManager.abort(transaction)
TxAbort ==
    LET w == revert(World)
    IN /\ CommitSession(w)
       /\ held' = NoHandle
       /\ last' = Outcome("abort", "a", Absent, FALSE, FALSE, w)
       /\ scenario' = NoScenario
       /\ UNCHANGED <<keys_out, revert_data, peer, twin, ctx, cache>>

\* DataManager.tpc_abort(transaction); the buffer holds its keys in one of
\* the orders a dict can have.  A call that never returns has no next state
TpcAbort(order) ==
    \E r \in {DM_tpc_abort(World, revert_data, order)} :
       /\ ~r.hang
       /\ CommitSession(r.w)
       /\ revert_data' = r.buf
       /\ held' = NoHandle
       /\ last' = Outcome("tpc_abort", "a", Absent, r.exc, revert_data.set, r.w)
       /\ scenario' = IF scenario.phase = "committed"
                       THEN [scenario EXCEPT !.phase = "aborted"]
                       ELSE NoScenario
       /\ UNCHANGED <<keys_out, peer, twin, ctx, cache>>

\* a session that takes part in the transaction of its context
InitTx ==
    /\ Constructed({None, StoredId}, {OneDict})
    /\ IsKv \/ conf.has_ctx
    /\ twin = NoTwin /\ ctx = NoCtx /\ cache = NoCache

NextTx ==
    \/ \E key \in Keys, value \in TxValues : TxSet(key, value)
    \/ \E key \in Keys : TxDel(key)
    \/ TxCommit
    \/ TxCommitFailing
    \/ TxAbort
    \/ \E order \in Orders : TpcAbort(order)

SpecTx == InitTx /\ [][NextTx]_vars

\* ------------------------------------- a loaded session beside a created one
\* one public operation of a session in the world w, with what the caller
\* sees of it: whether it raised, its boolean answer, the value it returned
Apply(op, key, value, w) ==
    IF op = "contains"
    THEN LET r == contains(w, key)
         IN [w |-> r.w, exc |-> FALSE, flag |-> r.ret, v |-> Absent]
    ELSE IF op = "get"
    THEN LET r == getitem(w, key)
         IN [w |-> r.w, exc |-> r.exc, flag |-> FALSE,
             v |-> IF r.exc THEN Absent ELSE r.ret.v]
    ELSE IF op = "set"
    THEN LET r == setitem(w, key, value)
         IN [w |-> r.w, exc |-> r.exc, flag |-> r.noop, v |-> Absent]
    ELSE IF op = "del"
    THEN [w |-> delitem(w, key), exc |-> FALSE, flag |-> FALSE, v |-> Absent]
    ELSE IF op = "store"
    THEN [w |-> store(w), exc |-> FALSE, flag |-> FALSE, v |-> Absent]
    ELSE [w |-> revert(w), exc |-> FALSE, flag |-> FALSE, v |-> Absent]

\* ConfiguredSessionModule.load(candidate) for an empty or unknown identity,
\* and ConfiguredSessionModule.create() on a backend of the same content
InitLoad ==
    /\ Constructed({EmptyId, UnknownId}, {OneDict})
    /\ twin = [on |-> TRUE, same |-> TRUE, candidate |-> last.pre_id,
               w |-> [World EXCEPT !.id = Session_init(container, table, None),
                                   !.original_id = Session_init(container, table, None)]]
    /\ ctx = NoCtx /\ cache = NoCache

\* the same operation on the loaded session and on the created one
Both(op, key, value) ==
    LET r == Apply(op, key, value, World)
        t == Apply(op, key, value, twin.w)
    IN /\ CommitSession(r.w)
       /\ held' = NoHandle
       /\ last' = Outcome(op, key, value, r.exc, r.flag, r.w)
       /\ twin' = [twin EXCEPT !.w = Settled(t.w),
                               !.same = /\ @
                                        /\ r.exc = t.exc
                                        /\ r.flag = t.flag
                                        /\ r.v = t.v]
       /\ UNCHANGED <<keys_out, revert_data, peer, scenario, ctx, cache>>

NextLoad ==
    \/ \E op \in {"contains", "get", "del"}, key \in Keys : Both(op, key, Absent)
    \/ \E key \in Keys, value \in Values : Both("set", key, value)
    \/ \E op \in {"store", "revert"} : Both(op, "a", Absent)

SpecLoad == InitLoad /\ [][NextLoad]_vars

\* ------------------------------------------------------- a failing backend
\* the values written while the backend fails
FailValues == {VInt(1), VMap(EmptyContent)}

\* an operation during which the backend refuses to write: the call that
\* writes raises, the operation ends there and the caller gets the error
Failing(op, key, value) ==
    \E r \in {Apply(op, key, value, [World EXCEPT !.fail = TRUE])} :
       /\ r.w.raised
       /\ CommitSession(r.w)
       /\ held' = NoHandle
       /\ last' = Outcome(op, key, value, TRUE, r.flag, r.w)
       /\ UNCHANGED ext

\* the same operations on a backend that works
Working(op, key, value) ==
    \E r \in {Apply(op, key, value, World)} :
       /\ CommitSession(r.w)
       /\ held' = NoHandle
       /\ last' = Outcome(op, key, value, r.exc, r.flag, r.w)
       /\ UNCHANGED ext

InitFail ==
    /\ Constructed({None, StoredId}, {OneDict})
    /\ twin = NoTwin /\ ctx = NoCtx /\ cache = NoCache

NextFail ==
    \/ \E key \in Keys, value \in FailValues : Working("set", key, value)
    \/ \E key \in Keys : Working("del", key, Absent)
    \/ \E op \in {"store", "revert"} : Working(op, "a", Absent)
    \/ \E key \in Keys, value \in FailValues : Failing("set", key, value)
    \/ \E key \in Keys : Failing("del", key, Absent)
    \/ Failing("store", "a", Absent)

SpecFail == InitFail /\ [][NextFail]_vars

\* ------------------------------------------------ the end of the session
\* Session.__del__: the session object is destroyed, which stores it
Destroy ==
    \E w \in {store(World)} :
       /\ last.op # "destroy"
       /\ CommitSession(w)
       /\ held' = NoHandle
       /\ last' = Outcome("destroy", "a", Absent, FALSE, FALSE, w)
       /\ UNCHANGED ext

InitLife ==
    /\ Constructed({None, StoredId}, {OneDict})
    /\ twin = NoTwin /\ ctx = NoCtx /\ cache = NoCache

\* an operation on a session object that still exists
Alive(op, key, value) ==
    /\ last.op # "destroy"
    /\ Working(op, key, value)

\* the life of a session object: operations until it is destroyed
NextLife ==
    \/ \E key \in Keys, value \in Values : Alive("set", key, value)
    \/ \E key \in Keys : Alive("del", key, Absent)
    \/ \E op \in {"store", "revert"} : Alive(op, "a", Absent)
    \/ Destroy

SpecLife == InitLife /\ [][NextLife]_vars

\* ---------------------------------------------- sessions that are iterated
\* list(session)
Iter ==
    \E r \in {Session_iter(World)} :
       /\ CommitSession(r.w)
       /\ held' = NoHandle
       /\ keys_out' = r.ret
       /\ last' = Outcome("iter", "a", Absent, FALSE, FALSE, r.w)
       /\ UNCHANGED <<revert_data, peer, scenario, twin, ctx, cache>>

\* len(session)
Length ==
    \E r \in {Session_len(World)} :
       /\ CommitSession(r.w)
       /\ held' = NoHandle
       /\ keys_out' = {}
       /\ last' = Outcome("len", "a", VInt(r.ret), FALSE, FALSE, r.w)
       /\ UNCHANGED <<revert_data, peer, scenario, twin, ctx, cache>>

InitIter ==
    /\ Constructed({None, StoredId}, {OneDict})
    /\ twin = NoTwin /\ ctx = NoCtx /\ cache = NoCache

NextIter ==
    \/ \E key \in Keys, value \in FailValues : Working("set", key, value)
    \/ \E key \in Keys : Working("del", key, Absent)
    \/ \E op \in {"store", "revert"} : Working(op, "a", Absent)
    \/ Iter
    \/ Length

SpecIter == InitIter /\ [][NextIter]_vars

\* --------------------------------------------- two instances that both write
\* the values the two instances write
TwoValues == {VInt(1), VMap(EmptyContent)}

\* a mutation or a store of B: it changes B and, when it writes, the shared
\* container; instance A is not touched.  flag: the container held exactly
\* the mapping of A, which A has changed, when the operation began
PeerWrite(op, key, value) ==
    \E r \in {Apply(op, key, value, PeerWorld)} :
       /\ peer.made /\ peer.id # None
       /\ peer' = [peer EXCEPT !.cached_dict = r.w.cached_dict,
                               !.is_dirty = r.w.is_dirty, !.v = Absent]
       /\ container' = r.w.container
       /\ last' = Outcome("peer_" \o op, key, value, r.exc,
                          was_changed /\ Lookup(container, id) = Found(cached_dict.d),
                          r.w)
       /\ held' = NoHandle
       /\ UNCHANGED <<conf, id, original_id, was_changed, is_dirty, cached_dict,
                      orm_object, table, keys_out, revert_data, scenario, twin, ctx, cache>>

\* two instances of one stored session of the cache backend
InitTwo ==
    /\ Constructed({StoredId}, {OneDict})
    /\ IsKv /\ id # None
    /\ twin = NoTwin /\ ctx = NoCtx /\ cache = NoCache

NextTwo ==
    \/ \E key \in Keys, value \in TwoValues : SetItem(key, value)
    \/ \E key \in Keys : DelItem(key)
    \/ Store
    \/ PeerLoad
    \/ \E key \in Keys, value \in TwoValues : PeerWrite("set", key, value)
    \/ \E key \in Keys : PeerWrite("del", key, Absent)
    \/ PeerWrite("store", "a", Absent)

SpecTwo == InitTwo /\ [][NextTwo]_vars

\* ------------------------------------------------- the session in a context
\* a value Python takes as true where an identity is tested
Truthy(i) == i \notin {None, EmptyId}

\* the candidate the member constructor hands to load(), None for create()
constructor(c) ==
    IF c.id_member # Unset THEN c.id_member
    ELSE IF c.cookies /\ c.http THEN c.request
    ELSE None

\* the destructor of the context member, called with the constructed session
member_destructor(c, session_id, session_original_id, exception) ==
    IF c.cookies /\ c.max_age THEN [c EXCEPT !.id_member = session_id]
    ELSE IF /\ c.cookies /\ c.http /\ ~exception
            /\ Truthy(session_id) /\ session_original_id # session_id
         THEN [c EXCEPT !.id_member = session_id, !.emitted = session_id]
         ELSE [c EXCEPT !.id_member = session_id]

\* the on_destroy listener with no test of the identity it found
on_destroy_unguarded(c, constructed, session_id, exception) ==
    IF exception \/ ~c.http THEN c
    ELSE [c EXCEPT !.emitted = IF constructed THEN session_id
                                ELSE IF c.id_member # Unset THEN c.id_member
                                ELSE c.request]

\* the on_destroy listener registered when max_age is configured
on_destroy(c, constructed, session_id, exception) ==
    IF exception \/ ~c.http THEN c
    ELSE Only({ IF Truthy(found) THEN [c EXCEPT !.emitted = found] ELSE c :
                found \in { IF constructed THEN session_id
                            ELSE IF c.id_member # Unset THEN c.id_member
                            ELSE IF c.cookies /\ c.http THEN c.request
                            ELSE None } })

\* first access to the context member: the constructor makes the session
CtxConstruct ==
    \E w \in {load(Settled(World), constructor(ctx))} :
       /\ ctx.phase = "alive" /\ ~ctx.constructed
       /\ ctx' = [ctx EXCEPT !.constructed = TRUE]
       /\ CommitSession(w)
       /\ held' = NoHandle
       /\ last' = Outcome("construct", "a", Absent, FALSE, FALSE, w)
       /\ UNCHANGED <<keys_out, revert_data, peer, scenario, twin, cache>>

\* an operation on the constructed member
CtxApply(op, key, value) ==
    /\ ctx.phase = "alive" /\ ctx.constructed
    /\ Working(op, key, value)

\* the end of the context: the member's destructor when the member was
\* constructed, and the on_destroy listener when max_age is configured
CtxDestroy(exception) ==
    \E c1 \in {IF ctx.constructed
               THEN member_destructor(ctx, id, original_id, exception)
               ELSE ctx} :
       /\ ctx.phase = "alive"
       /\ ctx' = [(IF ctx.cookies /\ ctx.max_age
                   THEN on_destroy(c1, ctx.constructed, id, exception)
                   ELSE c1)
                  EXCEPT !.phase = "gone", !.exception = exception]
       /\ CommitSession(World)
       /\ held' = NoHandle
       /\ last' = Outcome("ctx_destroy", "a", Absent, exception, FALSE, World)
       /\ UNCHANGED <<keys_out, revert_data, peer, scenario, twin, cache>>

\* the contexts a request can start with
CtxStarts ==
    { [NoCtx EXCEPT !.phase = "alive", !.http = h, !.cookies = ck, !.max_age = ma,
                    !.request = rq, !.id_member = im] :
        h \in BOOLEAN, ck \in BOOLEAN, ma \in BOOLEAN,
        rq \in {None, EmptyId, StoredId, UnknownId},
        im \in {Unset, None, StoredId} }

InitCtx ==
    /\ Constructed({None}, {OneDict})
    /\ twin = NoTwin
    /\ ctx \in CtxStarts
    /\ cache = NoCache
    /\ ctx.max_age => ctx.cookies
    /\ ~ctx.http => ctx.request = None

CtxValues == {VInt(1)}

NextCtx ==
    \/ CtxConstruct
    \/ \E key \in Keys, value \in CtxValues : CtxApply("set", key, value)
    \/ \E key \in Keys : CtxApply("del", key, Absent)
    \/ CtxApply("store", "a", Absent)
    \/ \E exception \in BOOLEAN : CtxDestroy(exception)

SpecCtx == InitCtx /\ [][NextCtx]_vars

\* ------------------------------------- __init__.py: the Session on a cache
\* the session object and the cache it works on; data is Session.__data
LegacyWorld ==
    [id |-> id, original_id |-> original_id, changed |-> was_changed,
     data |-> cached_dict, cache |-> cache, calls |-> 0, writes |-> 0,
     raised |-> FALSE]

\* ConfiguredSessionModule.load: Session(conf, id), the id is taken as it is
Legacy_load(c, candidate) ==
    [id |-> candidate, original_id |-> candidate, changed |-> FALSE,
     data |-> NoDict, cache |-> c, calls |-> 0, writes |-> 0, raised |-> FALSE]

\* Session._data: with livedata every access fetches the mapping again
Legacy_data(w) ==
    IF ~w.data.loaded \/ conf.livedata
    THEN [w EXCEPT !.data = Loaded(w.cache[w.id].d), !.calls = @ + 1]
    ELSE w

\* Session.store
Legacy_store(w) ==
    IF ~w.changed \/ ~w.data.loaded THEN w
    ELSE [w EXCEPT !.cache[w.id] = Found(w.data.d),
                   !.calls = @ + 1, !.writes = @ + 1]

\* Session.revert
Legacy_revert(w) ==
    IF ~w.data.loaded \/ conf.livedata THEN w
    ELSE [w EXCEPT !.changed = FALSE, !.data = NoDict]

\* Session.__contains__
Legacy_contains(w, key) ==
    IF w.id = None THEN [w |-> w, ret |-> FALSE]
    ELSE Only({ [w |-> w1, ret |-> w1.data.d[key] # Absent] :
                w1 \in {Legacy_data(w)} })

\* Session.__getitem__
Legacy_getitem(w, key) ==
    IF w.id = None THEN [w |-> w, exc |-> TRUE, v |-> Absent]
    ELSE Only({ [w |-> w1, exc |-> w1.data.d[key] = Absent, v |-> w1.data.d[key]] :
                w1 \in {Legacy_data(w)} })

\* Session.__setitem__
Legacy_setitem(w, key, value) ==
    Only({ IF conf.livedata THEN Legacy_store(w2) ELSE w2 :
           w2 \in { [w1 EXCEPT !.data.d[key] = value, !.changed = TRUE] :
                    w1 \in {Legacy_data([w EXCEPT !.id = IF @ = None THEN NewId ELSE @])} } })

\* Session.__delitem__: with livedata the mapping is fetched for the test
\* and fetched again for the del statement, and nothing is stored
Legacy_delitem(w, key) ==
    IF w.id = None THEN [w |-> w, exc |-> FALSE]
    ELSE Only({ IF conf.livedata /\ w1.data.d[key] = Absent
                THEN [w |-> w1, exc |-> FALSE]
                ELSE Only({ IF w2.data.d[key] = Absent
                            THEN [w |-> w2, exc |-> TRUE]
                            ELSE [w |-> [w2 EXCEPT !.data.d[key] = Absent],
                                  exc |-> FALSE] :
                            w2 \in {Legacy_data([w1 EXCEPT !.changed = TRUE])} }) :
                w1 \in {IF conf.livedata THEN Legacy_data(w) ELSE w} })

\* Session.pop(key): get(key, None), then del self[key]
Legacy_pop(w, key) ==
    Only({ Only({ [w |-> d.w, exc |-> d.exc,
                   v |-> IF d.exc THEN Absent ELSE IF g.exc THEN VNone ELSE g.v] :
                  d \in {Legacy_delitem(g.w, key)} }) :
           g \in {Legacy_getitem(w, key)} })

\* Session.popitem: key is the key the dict gives up
Legacy_popitem(w, key) ==
    Only({ IF w1.data.d[key] = Absent
           THEN [w |-> w1, exc |-> TRUE, v |-> Absent]
           ELSE [w |-> [w1 EXCEPT !.data.d[key] = Absent, !.changed = TRUE],
                 exc |-> FALSE, v |-> w1.data.d[key]] :
           w1 \in {Legacy_data(w)} })

\* Session.setdefault(key, default)
Legacy_setdefault(w, key, default) ==
    Only({ IF g.exc
           THEN [w |-> Legacy_setitem(g.w, key, default), exc |-> FALSE, v |-> default]
           ELSE g :
           g \in {Legacy_getitem(w, key)} })

\* Session.update({key: value})
Legacy_update(w, key, value) ==
    Only({ [w1 EXCEPT !.data.d[key] = value] : w1 \in {Legacy_data(w)} })

\* Session.clear
Legacy_clear(w) ==
    Only({ [w1 EXCEPT !.data.d = EmptyDict] :
           w1 \in {Legacy_data([w EXCEPT !.changed = TRUE])} })

\* one call on the session: the session after it, whether it raised, and
\* what it returned
LegacyApply(op, key, value, w) ==
    IF op = "contains"
    THEN Only({ [w |-> r.w, exc |-> FALSE, v |-> IF r.ret THEN VInt(1) ELSE Absent] :
                r \in {Legacy_contains(w, key)} })
    ELSE IF op = "get" THEN Legacy_getitem(w, key)
    ELSE IF op = "set"
    THEN [w |-> Legacy_setitem(w, key, value), exc |-> FALSE, v |-> Absent]
    ELSE IF op = "del"
    THEN Only({ [w |-> r.w, exc |-> r.exc, v |-> Absent] :
                r \in {Legacy_delitem(w, key)} })
    ELSE IF op = "pop" THEN Legacy_pop(w, key)
    ELSE IF op = "popitem" THEN Legacy_popitem(w, key)
    ELSE IF op = "setdefault" THEN Legacy_setdefault(w, key, value)
    ELSE IF op = "update"
    THEN [w |-> Legacy_update(w, key, value), exc |-> FALSE, v |-> Absent]
    ELSE IF op = "clear" THEN [w |-> Legacy_clear(w), exc |-> FALSE, v |-> Absent]
    ELSE IF op = "store" THEN [w |-> Legacy_store(w), exc |-> FALSE, v |-> Absent]
    ELSE [w |-> Legacy_revert(w), exc |-> FALSE, v |-> Absent]

\* a call on the session.  flag: the mapping the session holds after the
\* call differs from the data the session had before it
Legacy(op, key, value) ==
    \E r \in {LegacyApply(op, key, value, LegacyWorld)} :
       /\ id' = r.w.id
       /\ was_changed' = r.w.changed
       /\ cached_dict' = r.w.data
       /\ cache' = r.w.cache
       /\ last' = [op |-> op, key |-> key, val |-> value, exc |-> r.exc,
                   flag |-> r.w.data.d # Legacy_data(LegacyWorld).data.d,
                   calls |-> r.w.calls, writes |-> r.w.writes, raised |-> FALSE,
                   pre_id |-> id, pre_dirty |-> was_changed]
       /\ UNCHANGED <<conf, original_id, is_dirty, orm_object, container, table, held,
                      keys_out, revert_data, peer, scenario, twin, ctx>>

LegacyValues == {VInt(1), VMap(EmptyContent)}

\* a session made by load(candidate) on a cache that knows StoredId or not
InitLegacy ==
    /\ conf \in {[backend |-> "legacy", livedata |-> l, has_ctx |-> FALSE] : l \in BOOLEAN}
    /\ cache \in {NoCache, [NoCache EXCEPT ![StoredId] = Found(OneDict)]}
    /\ id \in {None, StoredId}
    /\ original_id = id
    /\ was_changed = FALSE
    /\ cached_dict = NoDict
    /\ is_dirty = FALSE
    /\ orm_object = NoObject
    /\ container = NoContainer
    /\ table = NoTable
    /\ held = NoHandle
    /\ keys_out = {}
    /\ revert_data = NoBuffer
    /\ peer = NoPeer
    /\ scenario = NoScenario
    /\ twin = NoTwin
    /\ ctx = NoCtx
    /\ last = [op |-> "init", key |-> "a", val |-> Absent, exc |-> FALSE,
               flag |-> FALSE, calls |-> 0, writes |-> 0, raised |-> FALSE,
               pre_id |-> id, pre_dirty |-> FALSE]

NextLegacy ==
    \/ \E key \in Keys, value \in LegacyValues :
          \E op \in {"set", "setdefault", "update"} : Legacy(op, key, value)
    \/ \E key \in Keys :
          \E op \in {"contains", "get", "del", "pop", "popitem"} : Legacy(op, key, Absent)
    \/ \E op \in {"clear", "store", "revert"} : Legacy(op, "a", Absent)

SpecLegacy == InitLegacy /\ [][NextLegacy]_vars

\* ================================================================== claims
SessionState == <<id, original_id, was_changed, is_dirty>>
Backend == <<container, table>>
View == [k \in Keys |-> ViewGet(k)]

\* C1: on a session whose id is None, contains(k) is false and get(k) fails
\* with KeyError, without a backend call and without a change of id,
\* isDirty, wasChanged or the cached data.
C1_NoIdentityReads ==
    [][(id = None /\ last'.op \in {"contains", "get"}) =>
          /\ (last'.op = "contains" => ~last'.flag)
          /\ (last'.op = "get" => last'.exc)
          /\ last'.calls = 0
          /\ UNCHANGED <<SessionState, cached_dict, orm_object, Backend>>]_vars

C1_Witness ==
    /\ last.op = "get" /\ last.exc /\ last.calls = 0
    /\ id = None /\ last.pre_id = None

\* C2: set(k, v) followed by get(k) returns a value equal to v, in every
\* state and for every value, an empty mapping included.
C2_SetThenGet == last.op = "set" => ViewGet(last.key) = last.val

\* C3: changing the object returned by get(k) changes neither what get
\* returns afterwards, nor the session's cached data, nor isDirty.
C3_CopyIsolation ==
    [][last'.op = "mutate" =>
          /\ View' = View
          /\ UNCHANGED <<SessionState, cached_dict, orm_object, Backend>>]_vars

C3_Witness ==
    /\ last.op = "mutate"
    /\ held.v = last.val
    /\ ViewGet(held.key) # held.v
    /\ ViewGet(held.key).t = "map"

\* C4: on a session whose id is None, set(k, v) assigns an identity and
\* makes wasChanged (and, not in live mode, isDirty) true, for every k and
\* v; contains and get never assign an identity.
C4_SetAssignsIdentity ==
    /\ (last.op = "set" /\ last.pre_id = None) =>
            /\ id # None
            /\ was_changed
            /\ ~conf.livedata => is_dirty
    /\ last.op \in {"contains", "get"} => id = last.pre_id

\* C5: set(k, v) of a present key to the value it has changes neither
\* isDirty, wasChanged, id nor the data, and writes nothing to the backend,
\* in live mode as well.
C5_EqualWriteIsNoOp ==
    [][(last'.op = "set" /\ ViewGet(last'.key) # Absent
            /\ ViewGet(last'.key) = last'.val) =>
          /\ UNCHANGED <<SessionState, Backend>>
          /\ View' = View
          /\ last'.writes = 0]_vars

C5_Witness ==
    /\ last.op = "set" /\ last.flag /\ last.writes = 0
    /\ ViewGet(last.key) = last.val /\ last.val # Absent
    /\ conf.livedata /\ was_changed

\* C6: store() on a session that is not dirty writes nothing and changes
\* nothing; store() writes to the backend only if isDirty is true.
C6_StoreOnlyIfDirty ==
    [][last'.op = "store" =>
          /\ ~is_dirty => /\ UNCHANGED <<SessionState, cached_dict, orm_object, Backend>>
                          /\ last'.calls = 0
          /\ (last'.writes > 0 \/ Backend' # Backend) => is_dirty]_vars

C6_Witness ==
    /\ last.op = "store" /\ ~last.pre_dirty /\ last.writes = 0
    /\ was_changed /\ id # None

\* C7: after store(), isDirty is false.
C7_StoreClearsDirty == last.op = "store" => ~is_dirty

\* C8: after revert() on a dirty session of a non-live backend, isDirty is
\* false and the session shows the last persisted data.
C8_RevertShowsPersisted ==
    (last.op = "revert" /\ last.pre_dirty /\ ~conf.livedata) =>
        /\ ~is_dirty
        /\ \A k \in Keys : /\ ViewGet(k) = Persisted(id)[k]
                            /\ ViewContains(k) <=> Persisted(id)[k] # Absent

C10_Delete ==
    [][last'.op = "del" =>
          IF id = None \/ ~ViewContains(last'.key)
          THEN /\ UNCHANGED <<SessionState, Backend>>
               /\ View' = View
               /\ ~last'.exc
          ELSE /\ ~ViewContains(last.key)'
               /\ was_changed'
               /\ ~conf.livedata => is_dirty']_vars


C12_LiveWriteReachesSecondInstance ==
    (last.op = "set" /\ IsKv /\ conf.livedata) =>
        LET B == load(Settled(World), id)
            r == getitem(B, last.key)
        IN /\ id # None
           /\ B.id = id
           /\ ~r.exc
           /\ r.ret.v = last.val

\* C13: with kvcache.livedata two instances of one identity see each
\* other's writes at once: whatever instance A has set or deleted, the next
\* get, contains and iteration of instance B, which has read its data
\* before, show the data the backend holds now
C13_LivePeerSeesNewest ==
    (peer.made /\ peer.id # None) =>
        /\ last.op = "peer_get" =>
              /\ peer.v = Persisted(peer.id)[last.key]
              /\ last.exc <=> Persisted(peer.id)[last.key] = Absent
        /\ last.op = "peer_contains" =>
              (last.flag <=> Persisted(peer.id)[last.key] # Absent)
        /\ last.op = "peer_iter" => keys_out = DictKeys(Persisted(peer.id))

\* C14: after session[a] = 1, commit(transaction) and tpc_abort(transaction)
\* in a row, the session shows for a the value it had before the set, and
\* no a if it had none
C14_TpcAbortRestoresPreMutation ==
    scenario.phase = "aborted" =>
        /\ ViewGet(scenario.key) = scenario.before
        /\ ViewContains(scenario.key) <=> scenario.before # Absent

\* C15: tpc_abort(transaction) on a session with an identity and a revert
\* buffer leaves the session showing exactly the buffer and discards the
\* buffer; without a buffer (so also the second time) or without an identity
\* it changes nothing
C15_TpcAbortReplaysBuffer ==
    [][last'.op = "tpc_abort" =>
          IF revert_data.set /\ id # None
          THEN /\ \A k \in Keys : ViewGet(k)' = revert_data.d[k]
               /\ revert_data' = NoBuffer
          ELSE /\ UNCHANGED <<SessionState, Backend, revert_data>>
               /\ View' = View]_vars

\* C16: when the backend write of store(), or of the write-through of a
\* mutation in live mode, raises, the caller gets the error and isDirty is
\* true afterwards, so that the next store() writes to the backend
C16_FailedWriteKeepsDirty ==
    last.raised =>
        /\ last.exc
        /\ is_dirty
        /\ store(World).writes > 0
C16_Witness ==
    /\ last.raised /\ last.op = "set" /\ conf.livedata
    /\ is_dirty
    /\ ViewGet(last.key) = last.val
    /\ Persisted(id)[last.key] # last.val

\* C17: the store() of the destruction writes nothing to the backend when
\* the last thing the caller did was a store() or a revert(), so that every
\* batch of mutations is written once
C17_DestroyAfterStoreIsNoOp ==
    [][(last'.op = "destroy" /\ last.op \in {"store", "revert"}) =>
          /\ last'.writes = 0
          /\ UNCHANGED Backend]_vars

\* C18: on the relational backend session[k] = v for a first-class column k
\* sets the column and leaves the payload alone, where no column name is
\* ever a key; for any other k it puts v, nested values included, into the
\* payload, leaves the columns alone, and session[k] returns v
C18_RelationalRouting ==
    [][(IsOrm /\ last'.op = "set") =>
          /\ \A c \in Columns : orm_object'.data[c] = Absent
          /\ IF hasattr(last'.key)
             THEN /\ orm_object'.cols[last'.key] = last'.val
                  /\ orm_object'.data = Orm_orm_object(World).orm_object.data
             ELSE /\ orm_object'.data[last'.key] = last'.val
                  /\ ViewGet(last.key)' = last'.val
                  /\ orm_object'.cols = Orm_orm_object(World).orm_object.cols]_vars

\* C19: on a session without identity the iteration yields no key, len is
\* 0, and neither makes a call to the backend, on both backends
C19_NoIdentityIteration ==
    [][(id = None /\ last'.op \in {"iter", "len"}) =>
          /\ last'.op = "iter" => keys_out' = {}
          /\ last'.op = "len" => last'.val = VInt(0)
          /\ last'.calls = 0]_vars

\* C20: a session of the cache backend whose identity has no entry in the
\* container when its data is first read (as after the revert of a session
\* that was never stored) reads without error and as empty, and a following
\* session[k] = v with store() makes the entry, under the same identity and
\* holding v
C20_CacheMissThenRecreate ==
    (IsKv /\ id # None /\ ~cached_dict.loaded /\ ~Lookup(container, id).found) =>
        /\ \A k \in Keys : ViewGet(k) = Absent /\ ~ViewContains(k)
        /\ Session_iter(World).ret = {}
        /\ \A k \in Keys, v \in Values :
              LET w == store(setitem(World, k, v).w)
              IN /\ w.id = id
                 /\ Lookup(w.container, id).found
                 /\ Lookup(w.container, id).d[k] = v

\* C21: when two instances of one identity of the cache backend write, the
\* container holds after every write the whole mapping of the instance that
\* wrote, whatever the other instance had written before: the last writer
\* wins and no key of the earlier writer is merged in
C21_LastWriterWins ==
    /\ (last.op \in {"set", "del", "store"} /\ last.writes > 0) =>
          Lookup(container, id) = Found(cached_dict.d)
    /\ (last.op \in {"peer_set", "peer_del", "peer_store"} /\ last.writes > 0) =>
          Lookup(container, peer.id) = Found(peer.cached_dict.d)
C21_Witness ==
    /\ last.op = "peer_store" /\ last.writes > 0 /\ last.flag
    /\ ~conf.livedata /\ peer.id = id
    /\ \E k \in Keys : cached_dict.d[k] # Absent /\ Lookup(container, id).d[k] = Absent

\* the identity the context has for the session when it ends
C22_Identity ==
    IF ctx.constructed THEN id
    ELSE IF ctx.id_member # Unset THEN ctx.id_member
    ELSE ctx.request
\* C22 (as stated): without max_age the cookie is emitted only when the
\* session has an identity that differs from its original one; with max_age a
\* cookie is emitted on every destruction of the context
C22_CookieOnEveryDestruction ==
    ctx.phase = "gone" =>
       /\ ~ctx.max_age =>
             (ctx.emitted # NoCookie => (id # None /\ id # original_id))
       /\ ctx.max_age => ctx.emitted # NoCookie
\* C22 (amended): without max_age the cookie is emitted exactly when cookies
\* are configured, the context has an http request, it ended without an
\* exception, and the constructed session has an identity that differs from
\* its original one; with max_age a cookie is emitted exactly when the
\* context has an http request, ended without an exception and has an
\* identity for the session (of the constructed session, else the one kept on
\* the context, else the request's cookie), whether the session changed or not
C22_CookieEmission ==
    ctx.phase = "gone" =>
       ctx.emitted =
          IF ctx.max_age
          THEN IF ctx.http /\ ~ctx.exception /\ Truthy(C22_Identity)
               THEN C22_Identity ELSE NoCookie
          ELSE IF /\ ctx.cookies /\ ctx.http /\ ~ctx.exception /\ ctx.constructed
                  /\ id # None /\ id # original_id
               THEN id ELSE NoCookie
C22_Witness ==
    /\ ctx.phase = "gone" /\ ctx.max_age /\ ctx.http /\ ~ctx.exception
    /\ ctx.constructed /\ id = None /\ ~was_changed
    /\ ctx.emitted = NoCookie

\* C23: commit(transaction) on a session with an identity stores the session
\* and leaves in the revert buffer the session's whole key/value view as it
\* is after the commit; on a session without identity it changes nothing;
\* when store() raises the revert buffer is as it was
C23_CommitSnapshots ==
    [][ last'.op = "commit" =>
          IF id = None
          THEN UNCHANGED <<SessionState, cached_dict, orm_object, Backend, revert_data>>
          ELSE IF last'.raised
          THEN /\ last'.exc
               /\ UNCHANGED revert_data
          ELSE /\ revert_data' = [set |-> TRUE, d |-> View']
               /\ (IsKv /\ is_dirty) =>
                     /\ last'.writes = 1
                     /\ Lookup(container', id') = Found(revert_data'.d)
               /\ UNCHANGED <<id, original_id>> ]_vars
C23_Witness ==
    /\ last.op = "commit" /\ ~last.raised /\ last.pre_id # None /\ last.pre_dirty
    /\ revert_data.set
    /\ revert_data.d["c"] = VInt(1)

\* C24: on the relational backend a store() of a dirty session puts the
\* identity on the row, stages the row and flags the payload modified; under
\* an externally managed transaction it commits nothing, and a revert() there
\* issues no rollback and leaves the row and the table as they are; without
\* one, store() commits the row at once and revert() issues a rollback
C24_ExternalTransaction ==
    [][ (IsOrm /\ is_dirty /\ ~last'.raised) =>
          /\ last'.op = "store" =>
                /\ orm_object'.rid = id' /\ id' # None
                /\ IF conf.has_ctx
                   THEN /\ orm_object'.state # "transient"
                        /\ orm_object'.flagged
                        /\ last'.writes = 0
                        /\ table' = table
                   ELSE /\ last'.writes = 1
                        /\ table'[id'] = Row(orm_object'.cols, orm_object'.data)
          /\ last'.op = "revert" =>
                IF conf.has_ctx
                THEN /\ last'.calls = 0
                     /\ UNCHANGED <<orm_object, table>>
                ELSE /\ last'.calls = 1
                     /\ table' = table ]_vars
C24_Witness ==
    /\ IsOrm /\ conf.has_ctx
    /\ last.op = "store" /\ last.pre_dirty /\ original_id = None
    /\ orm_object.state = "pending" /\ orm_object.flagged /\ orm_object.rid = id
    /\ table[id] = NoRow

\* a set that is not dropped or a delete of a key that is there
C25_Effective ==
    \/ last'.op = "set" /\ ~last'.flag /\ ~last'.exc
    \/ last'.op = "del" /\ ViewContains(last'.key)
C26_LegacyChangeReachesStore ==
    (/\ last.op \in {"set", "del", "pop", "popitem", "setdefault", "update", "clear"}
     /\ last.flag) =>
        /\ was_changed
        /\ id # None
        /\ Legacy_store(LegacyWorld).cache[id] = Found(cached_dict.d)

\* C27: on the Session of __init__.py with livedata, after a delete of a
\* present key contains(key) is false on the same instance and on every
\* other instance of the identity, and after a set the key is there with
\* the value set, on both
C27_LegacyLiveDelete ==
    conf.livedata =>
       /\ (last.op = "del" /\ last.flag /\ ~last.exc) =>
             /\ ~Legacy_contains(LegacyWorld, last.key).ret
             /\ ~Legacy_contains(Legacy_load(cache, id), last.key).ret
       /\ last.op = "set" =>
             /\ Legacy_getitem(LegacyWorld, last.key).v = last.val
             /\ Legacy_getitem(Legacy_load(cache, id), last.key).v = last.val

\* the keys a caller can probe: on the relational backend also the names
\* of the columns of the mixin
C28_Probes == IF IsOrm THEN Keys \cup RowAttributes ELSE Keys
\* C28: on a session with an identity the keys the iteration yields are
\* the keys for which contains is true, and len is their number, on both
\* backends and with mutations that were not stored
C28_IterationIsContainment ==
    id # None =>
       /\ Session_iter(World).ret = {k \in C28_Probes : contains(World, k).ret}
       /\ Session_len(World).ret = Cardinality({k \in C28_Probes : contains(World, k).ret})

\* C29: once the id of a session is not None, no set, delete, commit (which
\* stores), abort (which reverts) or tpc_abort changes it, and originalId
\* never changes; so id differs from originalId exactly when the session
\* was constructed without identity and has got one since
C29_IdentityStable ==
    [][ /\ id # None => id' = id
        /\ original_id' = original_id
        /\ (id' # original_id') <=> (original_id' = None /\ id' # None) ]_vars
C29_Witness ==
    /\ last.op = "tpc_abort" /\ last.flag
    /\ original_id = None /\ id = NewId

\* C30: in every reachable state id is None exactly when originalId is
\* None and wasChanged is false; isDirty implies wasChanged and an id that
\* is not None; no backend write is issued, successful or not, under the
\* identity None, and a dirty session of the cache backend has its mapping
\* loaded
C30_FlagsAndIdentity ==
    /\ (id = None) <=> (original_id = None /\ ~was_changed)
    /\ is_dirty => (was_changed /\ id # None)
    /\ (last.writes > 0 \/ last.raised) => (id # None /\ last.op # "init")
    /\ (IsKv /\ is_dirty) => cached_dict.loaded
    /\ IsKv => \A i \in IdSpace : Lookup(container, i).found => i \in {StoredId, id}
C30_Witness ==
    /\ last.op = "store" /\ last.raised
    /\ is_dirty /\ was_changed
    /\ original_id = None /\ id = NewId

\* C31: tpc_abort(transaction) on a session with an identity and a revert
\* buffer returns: its clear() comes, after finitely many popitem calls, to
\* an iteration that yields nothing, on the cache backend and on the
\* relational backend with first-class columns
C31_TpcAbortTerminates ==
    (revert_data.set /\ id # None) =>
        \A order \in Orders : ~DM_tpc_abort(World, revert_data, order).hang
====
